---------------------------- MODULE Spec2Model ----------------------------
(***************************************************************************)
(* A model of the media scripts:                                           *)
(*   scripts/find_duplicates.py  get_hashes, get_duplicates   (Spec,       *)
(*                                                              SpecHashes) *)
(*   scripts/rename_files.py     rename_files                  (SpecRename) *)
(*   scripts/search_and_delete.py  search_and_delete           (SpecSearch) *)
(*   scripts/organize_media.py   organize_media, __main__    (SpecOrganize) *)
(* Each specification holds the variables of the others constant.          *)
(***************************************************************************)
EXTENDS Integers, Sequences, FiniteSets, TLC

VARIABLES
    \* get_duplicates (find_duplicates.py:65-93)
    hash_results,      \* the list argument, sorted in place
    hamming_distance,  \* the threshold argument
    stack,             \* the open group
    duplicates,        \* the set of emitted groups
    pos,               \* 1-based position of the for loop in hash_results
    pc,                \* "start" | "scan" | "done"
    \* get_hashes (find_duplicates.py:28-62)
    fs_source,         \* the node the source path names
    recursive,         \* the recursive argument
    frames,            \* the call stack of get_hashes, innermost last
    gh_pc,             \* "start" | "run" | "returned" | "raised"
    gh_exc,            \* the exception that left get_hashes, or "none"
    gh_result,         \* the list the outermost call returned
    gh_log,            \* the file names printed by the except branch
    \* rename_files (rename_files.py:150-226)
    dest_fs,           \* the destination tree: path -> file identity
    src_files,         \* the source files iterdir has yet to yield
    cur,               \* the file being processed
    new_file,          \* the candidate destination path
    dry_run,           \* the dry_run argument
    rn_pc,             \* "next" | "loop" | "done" | "ValueError"
    rn_log,            \* the pairs <<f, new_file>> printed at line 222
    \* search_and_delete (search_and_delete.py:5-18)
    sd_source,         \* the tree under source when the call starts
    sd_term,           \* the term argument
    sd_ci,             \* the case_insensitive argument
    sd_recursive,      \* the recursive argument
    sd_todo,           \* the entries of source iterdir has yet to yield
    sd_files,          \* the paths of the files that exist
    sd_pc,             \* "run" | "done" | "raised"
    sd_exc,            \* the exception that left search_and_delete, or "none"
    sd_log,            \* the prompts so far: <<path, answer>>
    \* organize_media (organize_media.py:73-216)
    om_source,         \* source when the run starts: its kind ("dir", "missing"
                       \* or "dest", the destination itself) and its entries
    om_args,           \* recursive, with_exif_date, gps_only, camera_only,
                       \* apply_changes
    om_frames,         \* the calls of organize_media, innermost last: the
                       \* directory and the entries iterdir has yet to yield
    om_src_files,      \* the paths of the source files that exist
    om_dirs,           \* the directories that exist: destination and years
    om_dest,           \* the files under destination: path -> bytes
    om_pc,             \* "main" | "run" | "done" | "raised"
    om_log             \* the moves printed at line 181: <<path, out_file>>

dupVars == <<hash_results, hamming_distance, stack, duplicates, pos, pc>>
ghVars  == <<fs_source, recursive, frames, gh_pc, gh_exc, gh_result, gh_log>>
rnVars  == <<dest_fs, src_files, cur, new_file, dry_run, rn_pc, rn_log>>
sdVars  == <<sd_source, sd_term, sd_ci, sd_recursive, sd_todo, sd_files, sd_pc,
             sd_exc, sd_log>>
omVars  == <<om_source, om_args, om_frames, om_src_files, om_dirs, om_dest, om_pc,
             om_log>>
vars    == <<dupVars, ghVars, rnVars, sdVars, omVars>>

-----------------------------------------------------------------------------
(* Bounds of the model.                                                    *)
MaxLen == 4          \* longest list of records handed to get_duplicates
MaxThreshold == 3    \* largest hamming_distance argument
MaxEntries == 2      \* most entries of one directory scanned by get_hashes
MaxSuffix == 2       \* largest _N suffix already present in the destination

-----------------------------------------------------------------------------
(* Helpers on sequences.                                                   *)
SeqsUpTo(S, n) == UNION {[1..k -> S] : k \in 0..n}

-----------------------------------------------------------------------------
(* Hashes.  str(ImageHash) is a fixed-width lowercase hexadecimal string;  *)
(* a hash_str is modelled as the sequence of its characters.               *)
HexChars == <<"0", "1", "2", "3", "4", "5", "6", "7",
              "8", "9", "a", "b", "c", "d", "e", "f">>

\* int(c, 16) of one character
HexVal(c) == (CHOOSE i \in 1..16 : HexChars[i] = c) - 1

\* ord(c): the code point Python's string comparison orders by
Ord(c) == IF HexVal(c) < 10 THEN 48 + HexVal(c) ELSE 87 + HexVal(c)

\* the four bits of a hexadecimal character, most significant first
Bits(c) == [k \in 1..4 |-> (HexVal(c) \div (2 ^ (4 - k))) % 2]

RECURSIVE Flatten(_)
Flatten(ss) == IF ss = <<>> THEN <<>> ELSE Head(ss) \o Flatten(Tail(ss))

\* ih.hex_to_hash: the bit array of a hexadecimal string
hex_to_hash(hexstr) == Flatten([i \in 1..Len(hexstr) |-> Bits(hexstr[i])])

\* ImageHash.__sub__: the number of differing bit positions
ImageHashSub(x, y) == Cardinality({k \in 1..Len(x) : x[k] # y[k]})

\* HashResult.__sub__
HashResultSub(self, other) ==
    ImageHashSub(hex_to_hash(self.hash_str), hex_to_hash(other.hash_str))

\* Python's str <: lexicographic by code point, a proper prefix is smaller
RECURSIVE StrLess(_, _)
StrLess(a, b) ==
    IF b = <<>> THEN FALSE
    ELSE IF a = <<>> THEN TRUE
    ELSE IF Ord(Head(a)) # Ord(Head(b)) THEN Ord(Head(a)) < Ord(Head(b))
    ELSE StrLess(Tail(a), Tail(b))

\* The hashes and file names the inputs are drawn from (hash_size 4: 16 bits).
\* Distances: 0009-000f 2, 000f-001f 1, 0009-001f 3.
HashStrs == { <<"0", "0", "0", "9">>, <<"0", "0", "0", "f">>, <<"0", "0", "1", "f">> }
FileNames == { <<"a", ".jpg">>, <<"b", ".jpg">> }

HashResult == [hash_str : HashStrs, file_name : FileNames]

-----------------------------------------------------------------------------
(* get_duplicates                                                          *)

\* list.sort(key=lambda x: x.hash_str): stable, ascending by hash_str
RECURSIVE InsertByKey(_, _)
InsertByKey(sorted, x) ==
    IF sorted = <<>> THEN <<x>>
    ELSE IF StrLess(x.hash_str, Head(sorted).hash_str) THEN <<x>> \o sorted
    ELSE <<Head(sorted)>> \o InsertByKey(Tail(sorted), x)

RECURSIVE SortOf(_)
SortOf(s) ==
    IF s = <<>> THEN <<>>
    ELSE InsertByKey(SortOf(SubSeq(s, 1, Len(s) - 1)), s[Len(s)])

\* (variant: the list is left in its input order)
NoSort(records) == records

\* line 69
SortByHash(records) == SortOf(records)

\* (variant: stack[0], the first record of the open group)
StackFirst(stk) == stk[1]

\* stack[-1], the last record added to the open group
StackLast(stk) == stk[Len(stk)]

\* (variant: <= in place of <)
WithinOrEqual(stk, result, threshold) ==
    HashResultSub(StackLast(stk), result) <= threshold

\* line 79: stack[-1] - result < hamming_distance
Within(stk, result, threshold) ==
    HashResultSub(StackLast(stk), result) < threshold

\* frozenset(item.file_name for item in stack)
NameSet(stk) == {stk[i].file_name : i \in 1..Len(stk)}

\* if len(stack) > 1: duplicates.add(frozenset(...))
Emit(stk, dups) == IF Len(stk) > 1 THEN dups \cup {NameSet(stk)} ELSE dups

\* (variant: the else branch without stack.clear())
ScanKeep(st, result, threshold) ==
    IF st.stack = <<>>
    THEN [stack |-> <<result>>, duplicates |-> st.duplicates]
    ELSE IF Within(st.stack, result, threshold)
    THEN [stack |-> Append(st.stack, result), duplicates |-> st.duplicates]
    ELSE [stack |-> Append(st.stack, result),
          duplicates |-> Emit(st.stack, st.duplicates)]

\* lines 75-86: one iteration of the for loop, on the pair [stack, duplicates]
ScanStep(st, result, threshold) ==
    IF st.stack = <<>>
    THEN [stack |-> <<result>>, duplicates |-> st.duplicates]
    ELSE IF Within(st.stack, result, threshold)
    THEN [stack |-> Append(st.stack, result), duplicates |-> st.duplicates]
    ELSE [stack |-> <<result>>, duplicates |-> Emit(st.stack, st.duplicates)]

\* (variant: no check at the end of the list)
NoFinalCheck(st) == st.duplicates

\* lines 88-93: the check at the end of the list, and the return value
FinalCheck(st) == Emit(st.stack, st.duplicates)

RECURSIVE ScanFrom(_, _, _, _)
ScanFrom(st, records, i, threshold) ==
    IF i > Len(records) THEN st
    ELSE ScanFrom(ScanStep(st, records[i], threshold), records, i + 1, threshold)

\* the whole function, as one value
get_duplicates(records, threshold) ==
    FinalCheck(ScanFrom([stack |-> <<>>, duplicates |-> {}],
                        SortByHash(records), 1, threshold))

DupInit ==
    /\ hash_results \in SeqsUpTo(HashResult, MaxLen)
    /\ hamming_distance \in 0..MaxThreshold
    /\ stack = <<>>
    /\ duplicates = {}
    /\ pos = 1
    /\ pc = "start"

\* lines 69-71
Sort ==
    /\ pc = "start"
    /\ hash_results' = SortByHash(hash_results)
    /\ stack' = <<>>
    /\ duplicates' = {}
    /\ pos' = 1
    /\ pc' = "scan"
    /\ UNCHANGED hamming_distance
    /\ UNCHANGED <<ghVars, rnVars, sdVars, omVars>>

\* lines 74-86, one iteration
Scan ==
    /\ pc = "scan"
    /\ pos <= Len(hash_results)
    /\ LET st == ScanStep([stack |-> stack, duplicates |-> duplicates],
                          hash_results[pos], hamming_distance)
       IN /\ stack' = st.stack
          /\ duplicates' = st.duplicates
    /\ pos' = pos + 1
    /\ UNCHANGED <<hash_results, hamming_distance, pc>>
    /\ UNCHANGED <<ghVars, rnVars, sdVars, omVars>>

\* lines 88-93
Return ==
    /\ pc = "scan"
    /\ pos > Len(hash_results)
    /\ duplicates' = FinalCheck([stack |-> stack, duplicates |-> duplicates])
    /\ pc' = "done"
    /\ UNCHANGED <<hash_results, hamming_distance, stack, pos>>
    /\ UNCHANGED <<ghVars, rnVars, sdVars, omVars>>

DupNext == Sort \/ Scan \/ Return

-----------------------------------------------------------------------------
(* get_hashes                                                              *)
(* A file-system node is [name, type, content, entries]; a name is the     *)
(* pair <<stem, suffix>>.  The content of a file is BadHeader (Image.open   *)
(* cannot identify it), BadData (it opens, decoding fails inside           *)
(* hash_func) or the hash_str its pixels hash to.                          *)

\* mimetypes.guess_type: by suffix, case-insensitively; <<>> is None
guess_type(name) ==
    CASE name[2] \in {".jpg", ".JPG"} -> <<"image", "jpeg">>
      [] name[2] \in {".mp4"}         -> <<"video", "mp4">>
      [] name[2] \in {".txt"}         -> <<"text", "plain">>
      [] OTHER                        -> <<>>

\* mimetype.startswith("image")
IsImageType(mimetype) == mimetype # <<>> /\ mimetype[1] = "image"

ImageNames == { <<"a", ".jpg">>, <<"b", ".jpg">> }
OtherNames == { <<"notes", ".txt">> }
DirName == <<"sub", "">>
BadHeader == <<"bad_header">>
BadData == <<"bad_data">>
GoodContent == <<"0", "0", "0", "9">>

FileNode(n, c) == [name |-> n, type |-> "file", content |-> c, entries |-> <<>>]
DirNode(n, es) == [name |-> n, type |-> "dir", content |-> <<>>, entries |-> es]
MissingNode == [name |-> <<"gone", "">>, type |-> "missing", content |-> <<>>,
                entries |-> <<>>]

FileNodes ==
    {FileNode(n, c) : n \in ImageNames, c \in {BadHeader, BadData, GoodContent}}
    \cup {FileNode(n, BadHeader) : n \in OtherNames}

\* the entries of one directory: no two share a name
DistinctNames(es) == \A i, j \in 1..Len(es) : es[i].name = es[j].name => i = j

Listings(S) == {es \in SeqsUpTo(S, MaxEntries) : DistinctNames(es)}

SubDirs == {DirNode(DirName, es) : es \in Listings(FileNodes)}

SourceNodes ==
    {DirNode(<<"src", "">>, es) : es \in Listings(FileNodes \cup SubDirs)}
    \cup {MissingNode, FileNode(<<"a", ".jpg">>, GoodContent)}

Frame(es) == [entries |-> es, i |-> 1, hash_results |-> <<>>]

Top == frames[Len(frames)]
F == Top.entries[Top.i]
Rest == SubSeq(frames, 1, Len(frames) - 1)

\* the innermost loop moves to its next entry, having gained the records rs
Advance(rs) ==
    frames' = Rest \o <<[Top EXCEPT !.i = @ + 1, !.hash_results = @ \o rs]>>

GhInit ==
    /\ fs_source \in SourceNodes
    /\ recursive \in BOOLEAN
    /\ frames = <<>>
    /\ gh_pc = "start"
    /\ gh_exc = "none"
    /\ gh_result = <<>>
    /\ gh_log = <<>>

\* lines 33-36 of the outermost call; the name `hashes` is bound nowhere in
\* the function, and the module binds it only once this call has returned
GhCall ==
    /\ gh_pc = "start"
    /\ IF fs_source.type # "dir"
       THEN /\ gh_pc' = "raised"
            /\ gh_exc' = "NameError"
            /\ UNCHANGED frames
       ELSE /\ gh_pc' = "run"
            /\ frames' = <<Frame(fs_source.entries)>>
            /\ UNCHANGED gh_exc
    /\ UNCHANGED <<fs_source, recursive, gh_result, gh_log>>
    /\ UNCHANGED <<dupVars, rnVars, sdVars, omVars>>

\* lines 39-44: the recursive call on a directory entry
GhRecurse ==
    /\ gh_pc = "run" /\ Top.i <= Len(Top.entries)
    /\ recursive /\ F.type = "dir"
    /\ frames' = frames \o <<Frame(F.entries)>>
    /\ UNCHANGED <<fs_source, recursive, gh_pc, gh_exc, gh_result, gh_log>>
    /\ UNCHANGED <<dupVars, rnVars, sdVars, omVars>>

\* lines 46-51: an entry that is no file, or no image by its name
GhSkip ==
    /\ gh_pc = "run" /\ Top.i <= Len(Top.entries)
    /\ ~(recursive /\ F.type = "dir")
    /\ F.type # "file" \/ ~IsImageType(guess_type(F.name))
    /\ Advance(<<>>)
    /\ UNCHANGED <<fs_source, recursive, gh_pc, gh_exc, gh_result, gh_log>>
    /\ UNCHANGED <<dupVars, rnVars, sdVars, omVars>>

\* line 53: Image.open stands outside the try block
GhOpenFails ==
    /\ gh_pc = "run" /\ Top.i <= Len(Top.entries)
    /\ F.type = "file" /\ IsImageType(guess_type(F.name))
    /\ F.content = BadHeader
    /\ gh_pc' = "raised"
    /\ gh_exc' = "UnidentifiedImageError"
    /\ frames' = <<>>
    /\ UNCHANGED <<fs_source, recursive, gh_result, gh_log>>
    /\ UNCHANGED <<dupVars, rnVars, sdVars, omVars>>

\* lines 54-58: hash_func raises inside the try block
GhHashFails ==
    /\ gh_pc = "run" /\ Top.i <= Len(Top.entries)
    /\ F.type = "file" /\ IsImageType(guess_type(F.name))
    /\ F.content = BadData
    /\ gh_log' = Append(gh_log, F.name)
    /\ Advance(<<>>)
    /\ UNCHANGED <<fs_source, recursive, gh_pc, gh_exc, gh_result>>
    /\ UNCHANGED <<dupVars, rnVars, sdVars, omVars>>

\* lines 55, 60
GhAppend ==
    /\ gh_pc = "run" /\ Top.i <= Len(Top.entries)
    /\ F.type = "file" /\ IsImageType(guess_type(F.name))
    /\ F.content \notin {BadHeader, BadData}
    /\ Advance(<<[hash_str |-> F.content, file_name |-> F.name]>>)
    /\ UNCHANGED <<fs_source, recursive, gh_pc, gh_exc, gh_result, gh_log>>
    /\ UNCHANGED <<dupVars, rnVars, sdVars, omVars>>

\* line 62; in the caller, the extend of line 40 and the continue of line 47
GhReturn ==
    /\ gh_pc = "run" /\ Top.i > Len(Top.entries)
    /\ IF Len(frames) = 1
       THEN /\ gh_result' = Top.hash_results
            /\ gh_pc' = "returned"
            /\ frames' = <<>>
       ELSE /\ LET caller == frames[Len(frames) - 1]
               IN frames' = SubSeq(frames, 1, Len(frames) - 2)
                     \o <<[caller EXCEPT !.i = @ + 1,
                                         !.hash_results = @ \o Top.hash_results]>>
            /\ UNCHANGED <<gh_result, gh_pc>>
    /\ UNCHANGED <<fs_source, recursive, gh_exc, gh_log>>
    /\ UNCHANGED <<dupVars, rnVars, sdVars, omVars>>

GhNext ==
    GhCall \/ GhRecurse \/ GhSkip \/ GhOpenFails \/ GhHashFails \/ GhAppend
    \/ GhReturn

-----------------------------------------------------------------------------
(* rename_files                                                            *)
(* A datetime is [year, date, time, ts]: date and time are the two halves  *)
(* of isoformat("_", "seconds").replace(":", "-"), ts orders datetimes.    *)
(* A stem is a sequence of atoms: "_", a decimal digit, or a text holding  *)
(* no underscore.  A destination path is [year, stem, suffix].             *)

Digits == <<"0", "1", "2", "3", "4", "5", "6", "7", "8", "9">>
IsDigit(c) == \E i \in 1..10 : Digits[i] = c
DigitVal(c) == (CHOOSE i \in 1..10 : Digits[i] = c) - 1

\* str(n) for n >= 0
RECURSIVE IntToStr(_)
IntToStr(n) ==
    IF n < 10 THEN <<Digits[n + 1]>>
    ELSE IntToStr(n \div 10) \o <<Digits[(n % 10) + 1]>>

\* int(s): whether it parses, and its value
IntParses(s) == s # <<>> /\ \A i \in 1..Len(s) : IsDigit(s[i])

RECURSIVE StrToInt(_)
StrToInt(s) ==
    IF s = <<>> THEN 0
    ELSE 10 * StrToInt(SubSeq(s, 1, Len(s) - 1)) + DigitVal(s[Len(s)])

\* str.split("_")
RECURSIVE Split(_)
Split(s) ==
    IF \A i \in 1..Len(s) : s[i] # "_" THEN <<s>>
    ELSE LET k == CHOOSE i \in 1..Len(s) :
                      s[i] = "_" /\ \A j \in 1..(i - 1) : s[j] # "_"
         IN <<SubSeq(s, 1, k - 1)>> \o Split(SubSeq(s, k + 1, Len(s)))

\* str.lower() of a suffix
Lower(suffix) == IF suffix = ".JPG" THEN ".jpg" ELSE suffix

D2019 == [year |-> 2019, date |-> "2019-06-01", time |-> "10-00-00", ts |-> 1]
D2020 == [year |-> 2020, date |-> "2020-03-05", time |-> "18-30-00", ts |-> 2]
DateTimes == {D2019, D2020}

\* min(dates)
MinDate(dates) == CHOOSE d \in dates : \A e \in dates : d.ts <= e.ts

\* lines 205-208
DateString(d) == <<d.date, "_", d.time>>

FirstPath(f) ==
    LET min_date == MinDate(f.dates)
    IN [year |-> min_date.year, stem |-> DateString(min_date),
        suffix |-> Lower(f.name[2])]

\* (variant: the date string taken to hold no underscore)
NextStemUnsplit(stem) ==
    LET new_name_parts == Split(stem)
    IN IF Len(new_name_parts) = 1 THEN <<TRUE, stem \o <<"_", "1">>>>
       ELSE IF Len(new_name_parts) = 2
       THEN IF IntParses(new_name_parts[2])
            THEN <<TRUE, new_name_parts[1] \o <<"_">>
                         \o IntToStr(StrToInt(new_name_parts[2]) + 1)>>
            ELSE <<FALSE, stem>>
       ELSE <<FALSE, stem>>

\* lines 212-220, on the stem: <<TRUE, next stem>>, or <<FALSE, stem>> for
\* ValueError (the raise of line 220, or int() of a part that is no number)
NextStem(stem) ==
    LET new_name_parts == Split(stem)
    IN IF Len(new_name_parts) = 2 THEN <<TRUE, stem \o <<"_", "1">>>>
       ELSE IF Len(new_name_parts) = 3
       THEN IF IntParses(new_name_parts[3])
            THEN <<TRUE, new_name_parts[1] \o <<"_">> \o new_name_parts[2] \o <<"_">>
                         \o IntToStr(StrToInt(new_name_parts[3]) + 1)>>
            ELSE <<FALSE, stem>>
       ELSE <<FALSE, stem>>

\* Path.exists()
Exists(fs, path) == path \in DOMAIN fs

\* The files of the source directory.
SrcPool ==
    { [name |-> <<"IMG_1", ".JPG">>, dates |-> {D2019, D2020}],
      [name |-> <<"IMG_2", ".jpg">>, dates |-> {D2019}],
      [name |-> <<"IMG_3", ".jpg">>, dates |-> {D2020}],
      [name |-> <<"notes", ".txt">>, dates |-> {D2019}] }

\* The paths the destination may hold before the run.
Suffixed(d, k) ==
    [year |-> d.year,
     stem |-> IF k = 0 THEN DateString(d) ELSE DateString(d) \o <<"_">> \o IntToStr(k),
     suffix |-> ".jpg"]

DestPool == {Suffixed(d, k) : d \in DateTimes, k \in 0..MaxSuffix}

NoFile == [name |-> <<"", "">>, dates |-> {}]
NoPath == [year |-> 0, stem |-> <<>>, suffix |-> ""]

RnInit ==
    /\ \E present \in SUBSET DestPool : dest_fs = [p \in present |-> <<"old", "">>]
    /\ src_files \in SUBSET SrcPool
    /\ dry_run \in BOOLEAN
    /\ cur = NoFile
    /\ new_file = NoPath
    /\ rn_pc = "next"
    /\ rn_log = <<>>

\* lines 158-179: the next entry is no image and no video
RnSkip ==
    /\ rn_pc = "next"
    /\ \E f \in src_files :
          /\ guess_type(f.name) = <<>>
             \/ guess_type(f.name)[1] \notin {"image", "video"}
          /\ src_files' = src_files \ {f}
    /\ UNCHANGED <<dest_fs, cur, new_file, dry_run, rn_pc, rn_log>>
    /\ UNCHANGED <<dupVars, ghVars, sdVars, omVars>>

\* lines 158-208: the next entry is a media file; its first candidate path
RnPick ==
    /\ rn_pc = "next"
    /\ \E f \in src_files :
          /\ guess_type(f.name) # <<>>
          /\ guess_type(f.name)[1] \in {"image", "video"}
          /\ src_files' = src_files \ {f}
          /\ cur' = f
          /\ new_file' = FirstPath(f)
    /\ rn_pc' = "loop"
    /\ UNCHANGED <<dest_fs, dry_run, rn_log>>
    /\ UNCHANGED <<dupVars, ghVars, sdVars, omVars>>

\* lines 210-220: one iteration of the while loop
RnLoop ==
    /\ rn_pc = "loop"
    /\ Exists(dest_fs, new_file)
    /\ LET r == NextStem(new_file.stem)
       IN IF r[1]
          THEN /\ new_file' = [new_file EXCEPT !.stem = r[2]]
               /\ UNCHANGED rn_pc
          ELSE /\ rn_pc' = "ValueError"
               /\ UNCHANGED new_file
    /\ UNCHANGED <<dest_fs, src_files, cur, dry_run, rn_log>>
    /\ UNCHANGED <<dupVars, ghVars, sdVars, omVars>>

\* lines 222-226: the loop has ended; print, and rename unless dry_run
RnRename ==
    /\ rn_pc = "loop"
    /\ ~Exists(dest_fs, new_file)
    /\ rn_log' = Append(rn_log, <<cur.name, new_file>>)
    /\ dest_fs' = IF dry_run THEN dest_fs
                  ELSE [p \in DOMAIN dest_fs \cup {new_file} |->
                           IF p = new_file THEN cur.name ELSE dest_fs[p]]
    /\ rn_pc' = "next"
    /\ UNCHANGED <<src_files, cur, new_file, dry_run>>
    /\ UNCHANGED <<dupVars, ghVars, sdVars, omVars>>

\* the for loop is exhausted
RnDone ==
    /\ rn_pc = "next"
    /\ src_files = {}
    /\ rn_pc' = "done"
    /\ UNCHANGED <<dest_fs, src_files, cur, new_file, dry_run, rn_log>>
    /\ UNCHANGED <<dupVars, ghVars, sdVars, omVars>>

RnNext == RnSkip \/ RnPick \/ RnLoop \/ RnRename \/ RnDone

-----------------------------------------------------------------------------
(* search_and_delete                                                       *)
(* A name and a term are sequences of characters.  An entry of source is a *)
(* file [type, name] or a directory [type, name, files]; the path of a     *)
(* file is <<directory name, file name>>, with <<>> for source itself.     *)

\* str.lower() of one character and of a string
LowerChar(c) ==
    CASE c = "I" -> "i" [] c = "M" -> "m" [] c = "G" -> "g" [] OTHER -> c

LowerStr(str) == [i \in 1..Len(str) |-> LowerChar(str[i])]

\* a in b, for strings
Contains(a, b) ==
    \E k \in 0..(Len(b) - Len(a)) : SubSeq(b, k + 1, k + Len(a)) = a

\* lines 13-15
Matches(term, name, case_insensitive) ==
    \/ ~case_insensitive /\ Contains(term, name)
    \/ case_insensitive /\ Contains(LowerStr(term), LowerStr(name))

SdTerms == { <<"i", "m", "g">>, <<"I", "M", "G">> }
SdRootNames == { <<"i", "m", "g", "1">>, <<"I", "M", "G", "2">>, <<"d", "o", "c">> }
SdSubNames == { <<"i", "m", "g", "3">>, <<"d", "o", "c">> }
SdSubDir == <<"s", "u", "b">>
SdAnswers == {"y", "n", "Y", "yes", ""}

SdFile(n) == [type |-> "file", name |-> n, files |-> {}]
SdDir(ns) == [type |-> "dir", name |-> SdSubDir, files |-> ns]

SdTrees ==
    {{SdFile(n) : n \in ns} \cup ds :
        ns \in SUBSET SdRootNames,
        ds \in {{}} \cup {{SdDir(ms)} : ms \in SUBSET SdSubNames}}

\* the paths of the files of a tree
SdPaths(tree) ==
    {<<<<>>, e.name>> : e \in {x \in tree : x.type = "file"}}
    \cup UNION {{<<e.name, n>> : n \in e.files} : e \in {x \in tree : x.type = "dir"}}

SdInit ==
    /\ sd_source \in SdTrees
    /\ sd_term \in SdTerms
    /\ sd_ci \in BOOLEAN
    /\ sd_recursive \in BOOLEAN
    /\ sd_todo = sd_source
    /\ sd_files = SdPaths(sd_source)
    /\ sd_pc = "run"
    /\ sd_exc = "none"
    /\ sd_log = <<>>

\* lines 7-8: the recursive call passes source, term and recursive only;
\* case_insensitive has no default, so the call itself raises TypeError
SdRecurse ==
    /\ sd_pc = "run"
    /\ \E f \in sd_todo :
          /\ sd_recursive /\ f.type = "dir"
          /\ sd_pc' = "raised"
          /\ sd_exc' = "TypeError"
    /\ UNCHANGED <<sd_source, sd_term, sd_ci, sd_recursive, sd_todo, sd_files, sd_log>>
    /\ UNCHANGED <<dupVars, ghVars, rnVars, omVars>>

\* lines 10-15: an entry that is no file, or whose name does not match
SdSkip ==
    /\ sd_pc = "run"
    /\ \E f \in sd_todo :
          /\ ~(sd_recursive /\ f.type = "dir")
          /\ f.type # "file" \/ ~Matches(sd_term, f.name, sd_ci)
          /\ sd_todo' = sd_todo \ {f}
    /\ UNCHANGED <<sd_source, sd_term, sd_ci, sd_recursive, sd_files, sd_pc, sd_exc,
                   sd_log>>
    /\ UNCHANGED <<dupVars, ghVars, rnVars, omVars>>

\* lines 13-18: a matching file: the prompt, and the unlink on "y"
SdPrompt ==
    /\ sd_pc = "run"
    /\ \E f \in sd_todo, result \in SdAnswers :
          /\ f.type = "file" /\ Matches(sd_term, f.name, sd_ci)
          /\ sd_todo' = sd_todo \ {f}
          /\ sd_log' = Append(sd_log, <<<<<<>>, f.name>>, result>>)
          /\ sd_files' = IF result = "y" THEN sd_files \ {<<<<>>, f.name>>}
                         ELSE sd_files
    /\ UNCHANGED <<sd_source, sd_term, sd_ci, sd_recursive, sd_pc, sd_exc>>
    /\ UNCHANGED <<dupVars, ghVars, rnVars, omVars>>

\* the for loop is exhausted
SdDone ==
    /\ sd_pc = "run"
    /\ sd_todo = {}
    /\ sd_pc' = "done"
    /\ UNCHANGED <<sd_source, sd_term, sd_ci, sd_recursive, sd_todo, sd_files, sd_exc,
                   sd_log>>
    /\ UNCHANGED <<dupVars, ghVars, rnVars, omVars>>

SdNext == SdRecurse \/ SdSkip \/ SdPrompt \/ SdDone

-----------------------------------------------------------------------------
(* organize_media                                                          *)
(* A source file is [type, name, opens, exif, stat]: name is <<stem,       *)
(* suffix>> with the stem a sequence of characters, opens tells whether    *)
(* Image.open reads it, exif is <<>> (None) or a one-element sequence      *)
(* holding [gps, camera, dates], stat the three file times.  Its path is   *)
(* <<directory, name>> and its bytes are named by its path.  An out_file   *)
(* is [year, name, suffix].  Destination lies outside the source tree.     *)

\* str.translate(TRANS_TABLE) of one character: a space becomes "-", the
\* punctuation other than "-" and "_" is deleted (lines 13-14)
TranslateChar(c) ==
    CASE c = " " -> <<"-">>
      [] c \in {"!", ".", "(", ")"} -> <<>>
      [] OTHER -> <<c>>

\* str.lower() of one character of a stem
LowerStemChar(c) == CASE c = "A" -> "a" [] c = "B" -> "b" [] OTHER -> c

\* line 169: f.stem.translate(TRANS_TABLE).lower()
OldName(stem) ==
    LET t == Flatten([i \in 1..Len(stem) |-> TranslateChar(stem[i])])
    IN [i \in 1..Len(t) |-> LowerStemChar(t[i])]

NoExif == <<>>
Exif(g, c, ds) == <<[gps |-> g, camera |-> c, dates |-> ds]>>

OmFile(stem, suffix, exif, stat) ==
    [type |-> "file", name |-> <<stem, suffix>>, opens |-> TRUE, exif |-> exif,
     stat |-> stat, entries |-> {}]
OmDir(es) ==
    [type |-> "dir", name |-> <<<<"s", "u", "b">>, "">>, opens |-> FALSE,
     exif |-> NoExif, stat |-> {}, entries |-> es]

Photo == OmFile(<<"A", " ", "1">>, ".JPG", Exif(TRUE, TRUE, {D2019}), {D2020})
Copy  == OmFile(<<"a", "-", "1", "!">>, ".jpg", NoExif, {D2019})
Clip  == OmFile(<<"b">>, ".mp4", Exif(FALSE, TRUE, {}), {D2020})
Notes == OmFile(<<"n">>, ".txt", NoExif, {D2019})
\* a .jpg that Image.open cannot read
Broken == [OmFile(<<"c">>, ".jpg", NoExif, {D2019}) EXCEPT !.opens = FALSE]

OmTrees ==
    {fs \cup ds :
        fs \in SUBSET {Photo, Copy, Notes, Broken},
        ds \in {{}} \cup {{OmDir(es)} : es \in SUBSET {Photo, Clip}}}

\* what --src may name
OmSources ==
    {[kind |-> "dir", entries |-> t] : t \in OmTrees}
    \cup {[kind |-> "missing", entries |-> {}], [kind |-> "dest", entries |-> {}]}

\* the paths of the files of a tree
OmPaths(tree) ==
    {<<<<>>, e.name>> : e \in {x \in tree : x.type = "file"}}
    \cup UNION {{<<e.name, g.name>> : g \in e.entries} :
                    e \in {x \in tree : x.type = "dir"}}

OmArgs ==
    [recursive : BOOLEAN, with_exif_date : BOOLEAN, gps_only : BOOLEAN,
     camera_only : BOOLEAN, apply_changes : BOOLEAN]

\* lines 130-151: the dates read from the EXIF data
ExifDates(f) == IF f.exif = NoExif THEN {} ELSE f.exif[1].dates

\* lines 119-122 and 28-29: Image.open raises on an image it cannot read
OpenRaises(f) ==
    /\ f.type = "file"
    /\ guess_type(f.name) # <<>>
    /\ guess_type(f.name)[1] = "image"
    /\ ~f.opens

\* lines 105-155: the file is taken: it is a file, an image or a video, and
\* it passes the filters the arguments ask for
Taken(f, args) ==
    /\ f.type = "file"
    /\ guess_type(f.name) # <<>>
    /\ guess_type(f.name)[1] \in {"image", "video"}
    /\ ~OpenRaises(f)
    /\ ~((args.with_exif_date \/ args.gps_only \/ args.camera_only)
         /\ f.exif = NoExif)
    /\ f.exif # NoExif =>
          /\ ~(args.gps_only /\ ~f.exif[1].gps)
          /\ ~(args.camera_only /\ ~f.exif[1].camera)
    /\ ~(args.with_exif_date /\ ExifDates(f) = {})

\* lines 157-173
OutFile(f) ==
    LET min_date == MinDate(ExifDates(f) \cup f.stat)
    IN [year |-> min_date.year,
        name |-> DateString(min_date) \o <<"_", "_">> \o OldName(f.name[1]),
        suffix |-> Lower(f.name[2])]

\* (variant: the parent is made whatever apply_changes is)
MkdirAlways(apply_changes, dirs, parent) == dirs \cup {parent}

\* lines 174-175: the directories after the conditional mkdir of the parent
MkdirParent(apply_changes, dirs, parent) ==
    IF apply_changes /\ parent \notin dirs THEN dirs \cup {parent} ELSE dirs

\* line 177: out_file.exists()
OutExists(dest, out_file) == out_file \in DOMAIN dest

\* destination, and destination / str(year) (line 173)
DestDir == <<>>
YearDir(year) == <<year>>

\* what destination may hold before the run
OmDestStates ==
    {[dirs |-> {}, files |-> {}]}
    \cup {[dirs |-> {DestDir} \cup ys, files |-> fs] :
             ys \in SUBSET {YearDir(2019), YearDir(2020)},
             fs \in SUBSET {OutFile(Photo)}}

OmInit ==
    /\ om_source \in OmSources
    /\ om_args \in OmArgs
    /\ \E d \in OmDestStates :
          /\ \A q \in d.files : YearDir(q.year) \in d.dirs
          /\ om_dirs = d.dirs
          /\ om_dest = [q \in d.files |-> <<"old">>]
    /\ om_frames = <<>>
    /\ om_src_files = OmPaths(om_source.entries)
    /\ om_pc = "main"
    /\ om_log = <<>>

OmTop == om_frames[Len(om_frames)]

\* the innermost loop has dealt with its entry f
OmAdvance(f) ==
    om_frames' = SubSeq(om_frames, 1, Len(om_frames) - 1)
                 \o <<[OmTop EXCEPT !.todo = @ \ {f}]>>

\* lines 203-216 and 83-89: the mkdir of destination, and the outermost call
OmMain ==
    /\ om_pc = "main"
    /\ om_dirs' = IF om_args.apply_changes THEN om_dirs \cup {DestDir} ELSE om_dirs
    /\ IF om_source.kind = "dir"
       THEN /\ om_frames' = <<[dir |-> <<>>, todo |-> om_source.entries]>>
            /\ om_pc' = "run"
       ELSE /\ om_frames' = <<>>
            /\ om_pc' = "done"
    /\ UNCHANGED <<om_source, om_args, om_src_files, om_dest, om_log>>
    /\ UNCHANGED <<dupVars, ghVars, rnVars, sdVars>>

\* lines 93-107: the call on a subdirectory, which is no file afterwards
OmRecurse ==
    /\ om_pc = "run"
    /\ \E f \in OmTop.todo :
          /\ f.type = "dir" /\ om_args.recursive
          /\ om_frames' = SubSeq(om_frames, 1, Len(om_frames) - 1)
                          \o <<[OmTop EXCEPT !.todo = @ \ {f}],
                               [dir |-> f.name, todo |-> f.entries]>>
    /\ UNCHANGED <<om_source, om_args, om_src_files, om_dirs, om_dest, om_pc, om_log>>
    /\ UNCHANGED <<dupVars, ghVars, rnVars, sdVars>>

\* lines 105-155: an entry that is not taken
OmSkip ==
    /\ om_pc = "run"
    /\ \E f \in OmTop.todo :
          /\ ~(f.type = "dir" /\ om_args.recursive)
          /\ ~OpenRaises(f)
          /\ ~Taken(f, om_args)
          /\ OmAdvance(f)
    /\ UNCHANGED <<om_source, om_args, om_src_files, om_dirs, om_dest, om_pc, om_log>>
    /\ UNCHANGED <<dupVars, ghVars, rnVars, sdVars>>

\* lines 119-122: Image.open raises and the run ends there
OmRaise ==
    /\ om_pc = "run"
    /\ \E f \in OmTop.todo : OpenRaises(f)
    /\ om_pc' = "raised"
    /\ UNCHANGED <<om_source, om_args, om_frames, om_src_files, om_dirs, om_dest,
                   om_log>>
    /\ UNCHANGED <<dupVars, ghVars, rnVars, sdVars>>

\* lines 157-179: a taken file whose out_file exists is left where it is
OmExists ==
    /\ om_pc = "run"
    /\ \E f \in OmTop.todo :
          /\ Taken(f, om_args)
          /\ om_dirs' = MkdirParent(om_args.apply_changes, om_dirs, YearDir(OutFile(f).year))
          /\ OutExists(om_dest, OutFile(f))
          /\ OmAdvance(f)
    /\ UNCHANGED <<om_source, om_args, om_src_files, om_dest, om_pc, om_log>>
    /\ UNCHANGED <<dupVars, ghVars, rnVars, sdVars>>

\* lines 157-185: a taken file whose out_file does not exist: the print,
\* and with apply_changes the write of its bytes and the unlink
OmMove ==
    /\ om_pc = "run"
    /\ \E f \in OmTop.todo :
          LET path == <<OmTop.dir, f.name>>
              out_file == OutFile(f)
          IN /\ Taken(f, om_args)
             /\ om_dirs' = MkdirParent(om_args.apply_changes, om_dirs, YearDir(out_file.year))
             /\ ~OutExists(om_dest, out_file)
             /\ om_log' = Append(om_log, <<path, out_file>>)
             /\ IF om_args.apply_changes
                THEN /\ om_dest' = [q \in DOMAIN om_dest \cup {out_file} |->
                                       IF q = out_file THEN path ELSE om_dest[q]]
                     /\ om_src_files' = om_src_files \ {path}
                ELSE UNCHANGED <<om_dest, om_src_files>>
             /\ OmAdvance(f)
    /\ UNCHANGED <<om_source, om_args, om_pc>>
    /\ UNCHANGED <<dupVars, ghVars, rnVars, sdVars>>

\* the for loop of the innermost call is exhausted
OmReturn ==
    /\ om_pc = "run"
    /\ OmTop.todo = {}
    /\ om_frames' = SubSeq(om_frames, 1, Len(om_frames) - 1)
    /\ om_pc' = IF Len(om_frames) = 1 THEN "done" ELSE "run"
    /\ UNCHANGED <<om_source, om_args, om_src_files, om_dirs, om_dest, om_log>>
    /\ UNCHANGED <<dupVars, ghVars, rnVars, sdVars>>

OmNext ==
    OmMain \/ OmRecurse \/ OmSkip \/ OmRaise \/ OmExists \/ OmMove \/ OmReturn

-----------------------------------------------------------------------------
(* The specifications.                                                     *)

DupIdle ==
    /\ hash_results = <<>> /\ hamming_distance = 0 /\ stack = <<>>
    /\ duplicates = {} /\ pos = 1 /\ pc = "start"

GhIdle ==
    /\ fs_source = MissingNode /\ recursive = FALSE /\ frames = <<>>
    /\ gh_pc = "start" /\ gh_exc = "none" /\ gh_result = <<>> /\ gh_log = <<>>

RnIdle ==
    /\ dest_fs = <<>> /\ src_files = {} /\ dry_run = TRUE /\ cur = NoFile
    /\ new_file = NoPath /\ rn_pc = "next" /\ rn_log = <<>>

SdIdle ==
    /\ sd_source = {} /\ sd_term = <<>> /\ sd_ci = FALSE /\ sd_recursive = FALSE
    /\ sd_todo = {} /\ sd_files = {} /\ sd_pc = "done" /\ sd_exc = "none"
    /\ sd_log = <<>>

OmIdle ==
    /\ om_source = [kind |-> "missing", entries |-> {}]
    /\ om_frames = <<>> /\ om_src_files = {} /\ om_dirs = {}
    /\ om_args = [recursive |-> FALSE, with_exif_date |-> FALSE, gps_only |-> FALSE,
                  camera_only |-> FALSE, apply_changes |-> FALSE]
    /\ om_dest = <<>> /\ om_pc = "done" /\ om_log = <<>>

\* get_duplicates on any list of records
Init == DupInit /\ GhIdle /\ RnIdle /\ SdIdle /\ OmIdle
Next == DupNext
Spec == Init /\ [][Next]_vars

\* get_hashes on any small tree
InitHashes == GhInit /\ DupIdle /\ RnIdle /\ SdIdle /\ OmIdle
NextHashes == GhNext
SpecHashes == InitHashes /\ [][NextHashes]_vars

\* rename_files on any small source and destination; the interpreter keeps
\* running the one thread until the call ends
InitRename == RnInit /\ DupIdle /\ GhIdle /\ SdIdle /\ OmIdle
NextRename == RnNext
SpecRename == InitRename /\ [][NextRename]_vars /\ WF_vars(NextRename)

\* search_and_delete on any small tree, with any answers to its prompts
InitSearch == SdInit /\ DupIdle /\ GhIdle /\ RnIdle /\ OmIdle
NextSearch == SdNext
SpecSearch == InitSearch /\ [][NextSearch]_vars

\* the organize_media script on any small tree and destination
InitOrganize == OmInit /\ DupIdle /\ GhIdle /\ RnIdle /\ SdIdle
NextOrganize == OmNext
SpecOrganize == InitOrganize /\ [][NextOrganize]_vars

-----------------------------------------------------------------------------
(* Properties of get_duplicates (specification Spec).                      *)

Dist(i, j) == HashResultSub(hash_results[i], hash_results[j])

Names(i, j) == NameSet(SubSeq(hash_results, i, j))

\* every adjacent pair of hash_results[i..j] is closer than the threshold
Chained(i, j) == \A k \in i..(j - 1) : Dist(k, k + 1) < hamming_distance

\* the maximal runs of 2 or more chained records of the sorted list
MaximalRuns ==
    {r \in (1..Len(hash_results)) \X (1..Len(hash_results)) :
        /\ r[1] < r[2]
        /\ Chained(r[1], r[2])
        /\ r[1] = 1 \/ ~(Dist(r[1] - 1, r[1]) < hamming_distance)
        /\ r[2] = Len(hash_results) \/ ~(Dist(r[2], r[2] + 1) < hamming_distance)}

\* one group for each hash value carried by 2 or more records
IdenticalGroups ==
    LET idx == 1..Len(hash_results)
        same(i) == {j \in idx : hash_results[j].hash_str = hash_results[i].hash_str}
    IN {{hash_results[j].file_name : j \in same(i)} :
            i \in {k \in idx : Cardinality(same(k)) >= 2}}

\* C1: with threshold 0 the result holds exactly one group for each hash value
\* carried by 2 or more records, made of the identifiers of those records.
C1_ThresholdZeroGroupsIdentical ==
    (pc = "done" /\ hamming_distance = 0) => duplicates = IdenticalGroups

\* C2: every group of the result has 2 or more members, whatever the
\* identifiers of the records are.
C2_GroupCardinality == \A g \in duplicates : Cardinality(g) >= 2

\* C5: the comparator is strict: a record at distance equal to the threshold
\* from the last record of the open group starts a new group, a record at a
\* smaller distance joins the open group.
C5_StrictComparator ==
    [][(pc = "scan" /\ pos <= Len(hash_results) /\ stack # <<>>) =>
          LET result == hash_results[pos]
              d == HashResultSub(stack[Len(stack)], result)
          IN /\ d = hamming_distance => stack' = <<result>>
             /\ d < hamming_distance => stack' = Append(stack, result)]_vars

\* a record at distance exactly 2 = threshold opened a new group, and the
\* record after it, at a smaller distance, joined that group
C5_Witness ==
    /\ pc = "scan" /\ pos = 4 /\ hamming_distance = 2
    /\ Dist(1, 2) = 2 /\ Dist(2, 3) = 1
    /\ stack = <<hash_results[2], hash_results[3]>>

\* the sorted list holds A, B, C in a row, A-B and B-C closer than the
\* threshold, A-C not
ChainAt(i) ==
    /\ i + 2 <= Len(hash_results)
    /\ Dist(i, i + 1) < hamming_distance
    /\ Dist(i + 1, i + 2) < hamming_distance
    /\ Dist(i, i + 2) >= hamming_distance

\* C6: chaining: three records adjacent in sorted order, each closer than the
\* threshold to the next but the first and third not, land in one group.
C6_Chaining ==
    pc = "done" =>
        \A i \in 1..Len(hash_results) :
            ChainAt(i) => \E g \in duplicates : Names(i, i + 2) \subseteq g

C6_Witness ==
    /\ pc = "done"
    /\ \E i \in 1..Len(hash_results) :
          /\ ChainAt(i)
          /\ hash_results[i].file_name # hash_results[i + 2].file_name
          /\ Names(i, i + 2) \in duplicates

PermsOf(s) ==
    {[i \in 1..Len(s) |-> s[p[i]]] : p \in Permutations(1..Len(s))}

\* C7: order independence: every permutation of the input yields the set of
\* groups this run returned (hash_results holds the input, reordered).
C7_OrderIndependence ==
    pc = "done" =>
        \A shuffled \in PermsOf(hash_results) :
            get_duplicates(shuffled, hamming_distance) = duplicates

\* a run that returned a group for an input in which two records share a hash
C7_Witness ==
    /\ pc = "done"
    /\ duplicates # {}
    /\ Len(hash_results) >= 3
    /\ \E i \in 1..(Len(hash_results) - 1) :
          /\ Dist(i, i + 1) = 0
          /\ hash_results[i].file_name # hash_results[i + 1].file_name

\* C8 as stated: any two records placed in the same group are closer than
\* the threshold.
C8_PairwiseBelowThreshold ==
    \A i, j \in 1..Len(stack) :
        i # j => HashResultSub(stack[i], stack[j]) < hamming_distance

\* C8 as amended: the records of a group are chained: every two records
\* next to each other in the open group are closer than the threshold, and
\* every returned group is the identifier set of 2 or more consecutive
\* records of the sorted list chained in this way.
C8_AdjacentBelowThreshold ==
    /\ \A i \in 1..(Len(stack) - 1) :
          HashResultSub(stack[i], stack[i + 1]) < hamming_distance
    /\ pc = "done" =>
          \A g \in duplicates :
              \E i, j \in 1..Len(hash_results) :
                  i < j /\ Chained(i, j) /\ Names(i, j) = g

\* a group of three chained records was returned
C8_Witness ==
    /\ pc = "done"
    /\ \E i \in 1..Len(hash_results) :
          /\ i + 2 <= Len(hash_results)
          /\ Chained(i, i + 2)
          /\ Names(i, i + 2) \in duplicates

\* C9: the result is the set of identifier sets of the maximal runs of 2 or
\* more consecutive sorted records whose adjacent pairs are closer than the
\* threshold; shorter runs are dropped and the last run is flushed alike.
C9_MaximalRuns ==
    pc = "done" => duplicates = {Names(r[1], r[2]) : r \in MaximalRuns}

\* two runs were returned: one emitted during the scan, one by the flush
C9_Witness ==
    /\ pc = "done"
    /\ Cardinality(MaximalRuns) = 2
    /\ Cardinality(duplicates) = 2

-----------------------------------------------------------------------------
(* Properties of get_hashes (specification SpecHashes).                    *)

\* C3: for a source that is no directory, get_hashes returns an empty list
\* without raising, and get_duplicates of that list is the empty set.
C3_NonDirectoryReturnsEmpty ==
    (fs_source.type # "dir" /\ gh_pc # "start") =>
        /\ gh_pc = "returned"
        /\ gh_result = <<>>
        /\ \A t \in 0..MaxThreshold : get_duplicates(gh_result, t) = {}

\* the image files get_hashes traverses that open and decode
RECURSIVE Readable(_, _)
Readable(es, rec) ==
    IF es = <<>> THEN <<>>
    ELSE LET f == Head(es)
         IN (IF f.type = "dir" /\ rec THEN Readable(f.entries, rec)
             ELSE IF f.type = "file" /\ IsImageType(guess_type(f.name))
                     /\ f.content \notin {BadHeader, BadData}
             THEN <<[hash_str |-> f.content, file_name |-> f.name]>>
             ELSE <<>>)
            \o Readable(Tail(es), rec)

\* C4: an image that cannot be opened or decoded is left out and the scan
\* goes on: get_hashes never ends in an exception on a directory, and it
\* returns the records of all the readable images it traverses.
C4_UnreadableImageSkipped ==
    fs_source.type = "dir" =>
        /\ gh_pc # "raised"
        /\ gh_pc = "returned" => gh_result = Readable(fs_source.entries, recursive)

-----------------------------------------------------------------------------
(* Properties of rename_files (specification SpecRename).                  *)

\* no step changes or removes a file the destination already holds
KeepsExisting ==
    \A p \in DOMAIN dest_fs : p \in DOMAIN dest_fs' /\ dest_fs'[p] = dest_fs[p]

\* C10: the collision loop never raises ValueError and the call ends; no
\* rename replaces a file the destination holds; with dry_run False no two
\* files are renamed to the same path.
C10_NeverOverwrites ==
    /\ [](rn_pc # "ValueError")
    /\ [][KeepsExisting]_vars
    /\ [](~dry_run =>
            \A i, j \in 1..Len(rn_log) : i # j => rn_log[i][2] # rn_log[j][2])
    /\ <>(rn_pc = "done")

\* two files were renamed, the second to the suffix after one the
\* destination held, the first to the plain name
C10_Witness ==
    /\ rn_pc = "done" /\ ~dry_run
    /\ Len(rn_log) = 2
    /\ rn_log[1][2].stem = DateString(D2019)
    /\ rn_log[2][2].stem = DateString(D2019) \o <<"_", "2">>
    /\ dest_fs[rn_log[1][2]] = rn_log[1][1]
    /\ dest_fs[rn_log[2][2]] = rn_log[2][1]

-----------------------------------------------------------------------------
(* Properties of search_and_delete (specification SpecSearch).             *)

\* the files of the subdirectories of source whose names match the term
SdSubMatches ==
    {p \in SdPaths(sd_source) : p[1] # <<>> /\ Matches(sd_term, p[2], sd_ci)}

SdPrompted == {sd_log[i][1] : i \in 1..Len(sd_log)}

\* C11: with recursive True the call descends into the subdirectories and
\* ends without an error, having prompted for every matching file there
\* under the caller's case_insensitive; a file is unlinked only when its
\* name matches and the answer to its prompt is exactly "y".
C11_RecursiveSearch ==
    sd_recursive =>
        /\ sd_pc # "raised"
        /\ sd_pc = "done" => SdSubMatches \subseteq SdPrompted
        /\ \A p \in SdPaths(sd_source) \ sd_files :
              /\ Matches(sd_term, p[2], sd_ci)
              /\ \E i \in 1..Len(sd_log) : sd_log[i] = <<p, "y">>


\* the source file at a path of the tree
OmFileAt(path) ==
    CHOOSE f \in {Photo, Copy, Clip, Notes, Broken} : f.name = path[2]

\* the step leaves the file system as it is
OmFsUnchanged == UNCHANGED <<om_src_files, om_dirs, om_dest>>

\* the step unlinks a source file only with its bytes written at its
\* out_file, which did not exist, and changes no file of destination
OmSafeMove ==
    /\ \A q \in DOMAIN om_dest : q \in DOMAIN om_dest' /\ om_dest'[q] = om_dest[q]
    /\ om_src_files' \subseteq om_src_files
    /\ \A path \in om_src_files \ om_src_files' :
          LET out_file == OutFile(OmFileAt(path))
          IN /\ out_file \notin DOMAIN om_dest
             /\ out_file \in DOMAIN om_dest'
             /\ om_dest'[out_file] = path

\* C12: without apply_changes no step of organize_media changes the file
\* system (no directory made, no destination file written, no source file
\* unlinked); with apply_changes a source file is unlinked only in the step
\* that wrote its bytes to an out_file that did not exist, so a file whose
\* out_file exists stays where it is.
C12_DryRunFrame ==
    [][IF om_args.apply_changes THEN OmSafeMove ELSE OmFsUnchanged]_vars

\* a finished run with apply_changes over the whole tree that moved one file
\* and left in place another taken file whose out_file existed
C12_Witness ==
    /\ om_pc = "done"
    /\ om_args.apply_changes
    /\ om_args.recursive
    /\ \E path \in OmPaths(om_source.entries) \ om_src_files :
          om_dest[OutFile(OmFileAt(path))] = path
    /\ \E path \in om_src_files :
          /\ Taken(OmFileAt(path), om_args)
          /\ OutFile(OmFileAt(path)) \in DOMAIN om_dest
          /\ om_dest[OutFile(OmFileAt(path))] # path

=============================================================================
